---- MODULE Spec2Model ----
(***************************************************************************)
(* Model of streamlit_app.py: one render pass of the evaluation-criteria   *)
(* dashboard.  The pass runs two aggregation queries against the database, *)
(* merges the two result tables, applies the sidebar filters and builds    *)
(* the views of the three tabs and of the full table.                      *)
(*                                                                         *)
(* A DataFrame is a sequence of records (one record per row, one field per *)
(* column).  A float cell is a record [kind, tenths]: kind "num" carries   *)
(* the value in tenths (30.0 is 300), kinds "nan" and "inf" are the IEEE   *)
(* results of 0/0 and x/0.  NULL of a nullable text or boolean column is   *)
(* the string "NULL"; the NULL id of a row with no join partner is 0.      *)
(***************************************************************************)
EXTENDS Integers, Sequences, FiniteSets, TLC

\* ---------------------------------------------------------------- bounds
\* Entities of the small databases.
NumEntidades == 2
\* Rows of criterios_avaliativos, turmas and matriculas together in a small database.
MaxLinhas == 2
\* Entities of the wide database (more rows than the smallest top-N limit).
NumEntidadesAmplo == 7
\* Most criteria of one entity in the wide database.
MaxCriteriosAmplo == 3
\* Most enrolments of one class in the wide database.
MaxMatriculasAmplo == 1
\* Cap of the "Entidades a exibir" slider (the code's maximum is 100).
MaxNumEntidades == 5
\* Most names picked in the entity multiselect.
MaxSelecionadas == 1
\* Largest operand of the percentage function explored on its own.
MaxOperando == 12

\* ------------------------------------------------------ program constants
\* st.sidebar.slider("Entidades a exibir nos gráficos", min_value=5, ...)
MinNumEntidades == 5
\* st.sidebar.slider("Quantidade mínima de critérios", min_value=1, ...)
MinCriteriosSlider == 1
\* st.sidebar.slider("Quantidade mínima de matrículas", min_value=0, ...)
MinMatriculasSlider == 0
\* .round(1): one decimal, so a percentage is kept in tenths: x * 100 * 10.
Escala == 1000
\* The NULL id of an outer-joined row without partner.
NULLID == 0
\* The NaN cell of a count column of an unmatched left-join row.
NaNCell == -1

NULL == "NULL"

VARIABLES
    db,              \* the database: entidades, criterios_avaliativos, turmas, matriculas
    pc,              \* position of the script
    df_categorias,   \* result of carregar_dados_categorias
    df_matriculas,   \* result of carregar_dados_matriculas
    df_completo,     \* the merged table
    widgets,         \* the values of the sidebar and tab widgets
    df_filtrado,     \* the filtered table
    resumo,          \* the summary totals and percentages
    df_pizza,        \* the rows of the pie chart
    df_top_matriculas,
    df_top_categoria,
    df_display_cat,
    tab3,            \* what the per-entity tab showed
    df_display,      \* the full table, renamed and sorted
    ui,              \* st.error / st.code / st.success / st.info outputs, in order
    execucoes,       \* per query, how many times pd.read_sql was attempted
    perc             \* operands and results of the percentage expressions on their own

vars == <<db, pc, df_categorias, df_matriculas, df_completo, widgets, df_filtrado,
          resumo, df_pizza, df_top_matriculas, df_top_categoria, df_display_cat, tab3,
          df_display, ui, execucoes, perc>>

\* ------------------------------------------------------------- utilities
Nomes == <<"E1", "E2", "E3", "E4", "E5", "E6", "E7", "E8", "E9", "E10">>

\* entidades.nome of entity e.
NomeEntidade(e) == Nomes[e]

Range(s) == {s[i] : i \in DOMAIN s}

Max2(a, b) == IF a >= b THEN a ELSE b

Min2(a, b) == IF a <= b THEN a ELSE b

\* The increasing sequence of the members of a set of positive integers.
RECURSIVE SetToSeq(_)
SetToSeq(S) ==
    IF S = {} THEN <<>>
    ELSE LET m == CHOOSE x \in S : \A y \in S : x <= y
         IN <<m>> \o SetToSeq(S \ {m})

\* A Python name: not yet bound, bound to None, or bound to a DataFrame.
Unset == [st |-> "unset", rows |-> <<>>]
None == [st |-> "none", rows |-> <<>>]
DataFrame(rows) == [st |-> "df", rows |-> rows]

\* Float cells.
Num(t) == [kind |-> "num", tenths |-> t]
NaN == [kind |-> "nan", tenths |-> 0]
Inf == [kind |-> "inf", tenths |-> 0]

\* -------------------------------------------------------------- database
\* A row of criterios_avaliativos; its id is its index in db.criterios.
Criterio(e, formula, grupo_id, grupos, paralela, semestral) ==
    [entidade_id |-> e,
     formula_personalizada |-> formula,
     criterio_calculo_grupo_id |-> grupo_id,
     possui_criterios_grupos |-> grupos,
     possui_recuperacao_paralela |-> paralela,
     possui_recuperacao_semestral |-> semestral]

\* The attribute combinations of the criteria of the databases explored: no
\* category; a formula with parallel recovery; a formula and a group with
\* semester recovery; a group id whose possui_criterios_grupos is not true.
TiposCriterio(e) ==
    << Criterio(e, NULL, NULL, "f", "f", "f"),
       Criterio(e, "x+y", NULL, "f", "t", NULL),
       Criterio(e, "x+y", "g", "t", "f", "t"),
       Criterio(e, NULL, "g", NULL, "t", "t") >>

\* The columns of the outer-joined row without criterion.
CriterioNulo == Criterio(NULLID, NULL, NULL, NULL, NULL, NULL)

NumTipos == Len(TiposCriterio(1))

NonDecreasing(s) == \A i \in 1..(Len(s) - 1) : s[i] <= s[i + 1]

SeqsUpTo(S, n) == UNION {[1..k -> S] : k \in 0..n}

\* The criterion with code c: entity (c-1) \div NumTipos + 1, attributes (c-1) % NumTipos + 1.
CriterioDeCodigo(c) == TiposCriterio(((c - 1) \div NumTipos) + 1)[((c - 1) % NumTipos) + 1]

\* The small databases: at most MaxLinhas rows over the three tables besides
\* entidades; ids are given in a canonical order (tables that differ only in
\* the naming of ids are one table).
Ordenadas(S, n) == {s \in SeqsUpTo(S, n) : NonDecreasing(s)}

BasesPequenas ==
    { [entidades |-> 1..NumEntidades,
       criterios |-> [i \in DOMAIN x[1] |-> CriterioDeCodigo(x[1][i])],
       turmas |-> [i \in DOMAIN x[2] |-> [entidade_id |-> x[2][i]]],
       matriculas |-> [i \in DOMAIN x[3] |-> [turma_id |-> x[3][i]]]] :
      x \in
        { y \in Ordenadas(1..(NumEntidades * NumTipos), MaxLinhas)
                 \X Ordenadas(1..NumEntidades, MaxLinhas)
                 \X Ordenadas(1..MaxLinhas, MaxLinhas) :
            /\ Len(y[1]) + Len(y[2]) + Len(y[3]) <= MaxLinhas
            /\ \A i \in DOMAIN y[3] : y[3][i] <= Len(y[2]) } }

\* The wide database: entity 1 has no criterion and entity e > 1 has
\* ((e-2) % MaxCriteriosAmplo) + 1 of them; every entity has one class, with
\* e % (MaxMatriculasAmplo + 1) enrolments.
CriteriosAmplos ==
    LET pares == [i \in 1..(NumEntidadesAmplo * MaxCriteriosAmplo) |->
                    [e |-> ((i - 1) \div MaxCriteriosAmplo) + 1,
                     j |-> ((i - 1) % MaxCriteriosAmplo) + 1]]
        existentes == SelectSeq(pares, LAMBDA p :
                          p.e > 1 /\ p.j <= ((p.e - 2) % MaxCriteriosAmplo) + 1)
    IN [i \in DOMAIN existentes |->
          TiposCriterio(existentes[i].e)[((existentes[i].e + existentes[i].j) % NumTipos) + 1]]

MatriculasAmplas ==
    LET pares == [i \in 1..(NumEntidadesAmplo * MaxMatriculasAmplo) |->
                    [e |-> ((i - 1) \div MaxMatriculasAmplo) + 1,
                     j |-> ((i - 1) % MaxMatriculasAmplo) + 1]]
        existentes == SelectSeq(pares, LAMBDA p : p.j <= p.e % (MaxMatriculasAmplo + 1))
    IN [i \in DOMAIN existentes |-> [turma_id |-> existentes[i].e]]

BaseAmpla ==
    [entidades |-> 1..NumEntidadesAmplo,
     criterios |-> CriteriosAmplos,
     turmas |-> [i \in 1..NumEntidadesAmplo |-> [entidade_id |-> i]],
     matriculas |-> MatriculasAmplas]

\* The same entities and classes when no criterion has been registered yet.
BaseSemCriterios == [BaseAmpla EXCEPT !.criterios = <<>>]

\* DELETE FROM entidades WHERE id = e, cascading to the rows that reference it.
ApagarEntidade(d, e) ==
    LET ts == {t \in DOMAIN d.turmas : d.turmas[t].entidade_id = e}
    IN [entidades |-> d.entidades \ {e},
        criterios |-> [i \in {j \in DOMAIN d.criterios : d.criterios[j].entidade_id # e}
                         |-> d.criterios[i]],
        turmas |-> [i \in DOMAIN d.turmas \ ts |-> d.turmas[i]],
        matriculas |-> [i \in {j \in DOMAIN d.matriculas : d.matriculas[j].turma_id \notin ts}
                          |-> d.matriculas[i]]]

\* ------------------------------------------------------- DataFrame helpers
\* Insert row after the rows of a descending-sorted table whose key is >= its own.
RECURSIVE InsertDesc(_, _, _)
InsertDesc(row, sorted, col) ==
    IF sorted = <<>> THEN <<row>>
    ELSE IF Head(sorted)[col] >= row[col]
         THEN <<Head(sorted)>> \o InsertDesc(row, Tail(sorted), col)
         ELSE <<row>> \o sorted

\* df.sort_values(col, ascending=False) / ORDER BY col DESC: rows with equal
\* keys keep their order (neither pandas nor SQL fixes the order of ties; the
\* properties below are stated over the rows, not over the order of ties).
RECURSIVE SortValues(_, _)
SortValues(df, col) ==
    IF df = <<>> THEN <<>>
    ELSE InsertDesc(df[Len(df)], SortValues(SubSeq(df, 1, Len(df) - 1), col), col)

\* df.head(n)
HeadN(df, n) == SubSeq(df, 1, Min2(n, Len(df)))

\* df[col].sum()
RECURSIVE SumCol(_, _)
SumCol(df, col) == IF df = <<>> THEN 0 ELSE Head(df)[col] + SumCol(Tail(df), col)

\* df[col].max() of a non-empty table
RECURSIVE MaxCol(_, _)
MaxCol(df, col) ==
    IF Len(df) = 1 THEN df[1][col] ELSE Max2(Head(df)[col], MaxCol(Tail(df), col))

\* df[col].max(): NaN on an empty column.
MaxOuNaN(df, col) == IF df = <<>> THEN NaNCell ELSE MaxCol(df, col)

\* int(x) raises ValueError on NaN.
IntRaises(x) == x = NaNCell

\* --------------------------------------------------------------- queries
\* entidades e LEFT JOIN criterios_avaliativos ca ON ca.entidade_id = e.id,
\* the ca.id of the joined rows of entity e (NULLID: e has no criterion).
JuncaoCriterios(d, e) ==
    LET ids == {i \in DOMAIN d.criterios : d.criterios[i].entidade_id = e}
    IN IF ids = {} THEN <<NULLID>> ELSE SetToSeq(ids)

\* The ca.* columns of a joined row.
Ca(d, id) == IF id = NULLID THEN CriterioNulo ELSE d.criterios[id]

\* CaseWhen with the group-with-parallel-recovery condition missing its
\* possui_criterios_grupos = true conjunct.
CaseWhenSemPossui(col, ca) ==
    CASE col = "formula_personalizada" ->
            ca.formula_personalizada # NULL
      [] col = "criterio_grupo" ->
            /\ ca.criterio_calculo_grupo_id # NULL
            /\ ca.possui_criterios_grupos = "t"
      [] col = "grupo_rec_paralela" ->
            /\ ca.criterio_calculo_grupo_id # NULL
            /\ ca.possui_recuperacao_paralela = "t"
      [] col = "grupo_rec_semestral" ->
            /\ ca.criterio_calculo_grupo_id # NULL
            /\ ca.possui_criterios_grupos = "t"
            /\ ca.possui_recuperacao_semestral = "t"
      [] col = "formula_rec_paralela" ->
            /\ ca.formula_personalizada # NULL
            /\ ca.possui_recuperacao_paralela = "t"
      [] col = "formula_rec_semestral" ->
            /\ ca.formula_personalizada # NULL
            /\ ca.possui_recuperacao_semestral = "t"

\* The CASE WHEN condition of each aggregated column (NULL = true is not true).
CaseWhen(col, ca) ==
    CASE col = "formula_personalizada" ->
            ca.formula_personalizada # NULL
      [] col = "criterio_grupo" ->
            /\ ca.criterio_calculo_grupo_id # NULL
            /\ ca.possui_criterios_grupos = "t"
      [] col = "grupo_rec_paralela" ->
            /\ ca.criterio_calculo_grupo_id # NULL
            /\ ca.possui_criterios_grupos = "t"
            /\ ca.possui_recuperacao_paralela = "t"
      [] col = "grupo_rec_semestral" ->
            /\ ca.criterio_calculo_grupo_id # NULL
            /\ ca.possui_criterios_grupos = "t"
            /\ ca.possui_recuperacao_semestral = "t"
      [] col = "formula_rec_paralela" ->
            /\ ca.formula_personalizada # NULL
            /\ ca.possui_recuperacao_paralela = "t"
      [] col = "formula_rec_semestral" ->
            /\ ca.formula_personalizada # NULL
            /\ ca.possui_recuperacao_semestral = "t"

\* SUM(CASE WHEN ... THEN 1 ELSE 0 END) over the joined rows of one group.
RECURSIVE SumCase(_, _, _)
SumCase(d, rows, col) ==
    IF rows = <<>> THEN 0
    ELSE (IF CaseWhen(col, Ca(d, Head(rows))) THEN 1 ELSE 0) + SumCase(d, Tail(rows), col)

\* COUNT(DISTINCT id) over the joined rows of one group (NULL is not counted).
CountDistinct(ids) == Cardinality(Range(ids) \ {NULLID})

\* The SELECT list of carregar_dados_categorias for the group of entity e.
LinhaCategorias(d, e) ==
    LET rows == JuncaoCriterios(d, e)
    IN [entidade_id |-> e,
        nome_entidade |-> NomeEntidade(e),
        total_criterios |-> CountDistinct(rows),
        formula_personalizada |-> SumCase(d, rows, "formula_personalizada"),
        criterio_grupo |-> SumCase(d, rows, "criterio_grupo"),
        grupo_rec_paralela |-> SumCase(d, rows, "grupo_rec_paralela"),
        grupo_rec_semestral |-> SumCase(d, rows, "grupo_rec_semestral"),
        formula_rec_paralela |-> SumCase(d, rows, "formula_rec_paralela"),
        formula_rec_semestral |-> SumCase(d, rows, "formula_rec_semestral")]

\* The query without its HAVING clause.
HavingOmitido(linha) == TRUE

\* HAVING COUNT(DISTINCT ca.id) > 0
Having(linha) == linha.total_criterios > 0

\* The result of the query of carregar_dados_categorias on database d.
QueryCategorias(d) ==
    LET es == SetToSeq(d.entidades)
        grupos == [i \in 1..Len(es) |-> LinhaCategorias(d, es[i])]
    IN SortValues(SelectSeq(grupos, Having), "total_criterios")

\* entidades e LEFT JOIN turmas t LEFT JOIN matriculas m: the (t.id, m.id)
\* pairs of the joined rows of the classes ts of one entity.
RECURSIVE JuncaoMatriculas(_, _)
JuncaoMatriculas(d, ts) ==
    IF ts = <<>> THEN <<>>
    ELSE LET t == Head(ts)
             ms == {i \in DOMAIN d.matriculas : d.matriculas[i].turma_id = t}
             linhas == IF ms = {} THEN << [t |-> t, m |-> NULLID] >>
                       ELSE [i \in 1..Cardinality(ms) |-> [t |-> t, m |-> SetToSeq(ms)[i]]]
         IN linhas \o JuncaoMatriculas(d, Tail(ts))

JuncaoTurmas(d, e) ==
    LET ts == {i \in DOMAIN d.turmas : d.turmas[i].entidade_id = e}
    IN IF ts = {} THEN << [t |-> NULLID, m |-> NULLID] >>
       ELSE JuncaoMatriculas(d, SetToSeq(ts))

\* The SELECT list of carregar_dados_matriculas for the group of entity e.
LinhaMatriculas(d, e) ==
    LET rows == JuncaoTurmas(d, e)
    IN [entidade_id |-> e,
        nome_entidade |-> NomeEntidade(e),
        total_matriculas |-> CountDistinct([i \in DOMAIN rows |-> rows[i].m]),
        total_turmas |-> CountDistinct([i \in DOMAIN rows |-> rows[i].t])]

\* The result of the query of carregar_dados_matriculas on database d.
QueryMatriculas(d) ==
    LET es == SetToSeq(d.entidades)
        grupos == [i \in 1..Len(es) |-> LinhaMatriculas(d, es[i])]
    IN SortValues(grupos, "total_matriculas")

\* --------------------------------------------------------------- program
\* The texts of the two queries.
Q_CATEGORIAS == "SELECT ... FROM entidades e LEFT JOIN criterios_avaliativos ca ..."
Q_MATRICULAS == "SELECT ... FROM entidades e LEFT JOIN turmas t LEFT JOIN matriculas m ..."

\* What the database does with a query: it answers, the engine cannot be
\* obtained (get_connection raises), or pd.read_sql raises.
Resultados == {"ok", "erro_conexao", "erro_sql"}

Consultar(query, d) == IF query = Q_CATEGORIAS THEN QueryCategorias(d) ELSE QueryMatriculas(d)

StError(texto, detalhe) == [tipo |-> "error", texto |-> texto, detalhe |-> detalhe]
StCode(texto) == [tipo |-> "code", texto |-> texto, detalhe |-> ""]
StSuccess(texto) == [tipo |-> "success", texto |-> texto, detalhe |-> ""]

ERRO_CONSULTA == "Erro ao executar consulta"
ERRO_DADOS == "Nao foi possivel carregar os dados necessarios para a analise."
DADOS_CARREGADOS == "Dados carregados com sucesso"

\* executar_consulta running the query a second time before giving up.
ExecutarConsultaComRetry(query, resultado, d) ==
    IF resultado = "ok"
    THEN [ret |-> DataFrame(Consultar(query, d)), out |-> <<>>,
          raised |-> FALSE, tentativas |-> 1]
    ELSE [ret |-> None,
          out |-> << StError(ERRO_CONSULTA, resultado), StCode(query) >>,
          raised |-> FALSE, tentativas |-> 2]

\* executar_consulta(query): the value returned, the outputs shown, whether an
\* exception leaves the function, and how many times the try body ran.
ExecutarConsulta(query, resultado, d) ==
    IF resultado = "ok"
    THEN [ret |-> DataFrame(Consultar(query, d)), out |-> <<>>,
          raised |-> FALSE, tentativas |-> 1]
    ELSE [ret |-> None,
          out |-> << StError(ERRO_CONSULTA, resultado), StCode(query) >>,
          raised |-> FALSE, tentativas |-> 1]

\* pd.merge(left, right[[entidade_id, total_matriculas, total_turmas]],
\*          on='entidade_id', how='left'): the left rows in their order, each
\* with every right row of the same key, or with NaN cells when there is none.
RECURSIVE Merge(_, _)
Merge(left, right) ==
    IF left = <<>> THEN <<>>
    ELSE LET l == Head(left)
             ms == SelectSeq(right, LAMBDA r : r.entidade_id = l.entidade_id)
             junta(tm, tt) ==
                 [entidade_id |-> l.entidade_id,
                  nome_entidade |-> l.nome_entidade,
                  total_criterios |-> l.total_criterios,
                  formula_personalizada |-> l.formula_personalizada,
                  criterio_grupo |-> l.criterio_grupo,
                  grupo_rec_paralela |-> l.grupo_rec_paralela,
                  grupo_rec_semestral |-> l.grupo_rec_semestral,
                  formula_rec_paralela |-> l.formula_rec_paralela,
                  formula_rec_semestral |-> l.formula_rec_semestral,
                  total_matriculas |-> tm,
                  total_turmas |-> tt]
             linhas == IF ms = <<>> THEN << junta(NaNCell, NaNCell) >>
                       ELSE [j \in 1..Len(ms) |->
                               junta(ms[j].total_matriculas, ms[j].total_turmas)]
         IN linhas \o Merge(Tail(left), right)

\* fillna applied to the total_matriculas column alone.
FillNaSoMatriculas(df) ==
    [i \in 1..Len(df) |->
        [df[i] EXCEPT !.total_matriculas = IF @ = NaNCell THEN 0 ELSE @]]

\* df.fillna(0): the two right-hand columns are the only ones that can hold NaN.
FillNa(df) ==
    [i \in 1..Len(df) |->
        [df[i] EXCEPT
            !.total_matriculas = IF @ = NaNCell THEN 0 ELSE @,
            !.total_turmas = IF @ = NaNCell THEN 0 ELSE @]]

\* numpy's round of the quotient n / d (d > 0) to an integer, half to even.
RoundHalfEven(n, d) ==
    LET q == n \div d
        r == n % d
    IN IF 2 * r < d THEN q
       ELSE IF 2 * r > d THEN q + 1
       ELSE IF q % 2 = 0 THEN q ELSE q + 1

\* The percentage truncated to one decimal instead of rounded.
PercentualTruncado(num, den) ==
    IF den = 0 THEN (IF num = 0 THEN NaN ELSE Inf)
    ELSE Num((num * Escala) \div den)

\* (num / den * 100).round(1) on columns of numbers: the float division gives
\* NaN for 0/0 and inf for x/0, and round keeps both.  A quotient lies exactly
\* half-way between two tenths only when 16 divides den, so for the counts
\* explored the float result is the exact quotient's nearest tenth.
Percentual(num, den) ==
    IF den = 0 THEN (IF num = 0 THEN NaN ELSE Inf)
    ELSE Num(RoundHalfEven(num * Escala, den))

\* (a / b * 100).round(1) if b > 0 else 0
PercentualResumo(num, den) == IF den > 0 THEN Percentual(num, den) ELSE Num(0)

\* The two derived columns of df_completo.
Derivados(df) ==
    [i \in 1..Len(df) |->
        [entidade_id |-> df[i].entidade_id,
         nome_entidade |-> df[i].nome_entidade,
         total_criterios |-> df[i].total_criterios,
         formula_personalizada |-> df[i].formula_personalizada,
         criterio_grupo |-> df[i].criterio_grupo,
         grupo_rec_paralela |-> df[i].grupo_rec_paralela,
         grupo_rec_semestral |-> df[i].grupo_rec_semestral,
         formula_rec_paralela |-> df[i].formula_rec_paralela,
         formula_rec_semestral |-> df[i].formula_rec_semestral,
         total_matriculas |-> df[i].total_matriculas,
         total_turmas |-> df[i].total_turmas,
         percentual_formula |-> Percentual(df[i].formula_personalizada, df[i].total_criterios),
         percentual_grupo |-> Percentual(df[i].criterio_grupo, df[i].total_criterios)]]

\* The merged table of the two query results.
Mesclar(categorias, matriculas) == Derivados(FillNa(Merge(categorias, matriculas)))

\* The filters with a strict enrolment cutoff.
FiltrarEstrito(df, selecionadas, min_matriculas, min_criterios) ==
    LET f1 == IF selecionadas # {}
              THEN SelectSeq(df, LAMBDA r : r.nome_entidade \in selecionadas)
              ELSE df
        f2 == SelectSeq(f1, LAMBDA r : r.total_matriculas > min_matriculas)
    IN SelectSeq(f2, LAMBDA r : r.total_criterios >= min_criterios)

\* The filters with the criteria cutoff taken as an upper limit.
FiltrarLimiteSuperior(df, selecionadas, min_matriculas, min_criterios) ==
    LET f1 == IF selecionadas # {}
              THEN SelectSeq(df, LAMBDA r : r.nome_entidade \in selecionadas)
              ELSE df
        f2 == SelectSeq(f1, LAMBDA r : r.total_matriculas >= min_matriculas)
    IN SelectSeq(f2, LAMBDA r : r.total_criterios <= min_criterios)

\* The three filters, in the order of the code.
Filtrar(df, selecionadas, min_matriculas, min_criterios) ==
    LET f1 == IF selecionadas # {}
              THEN SelectSeq(df, LAMBDA r : r.nome_entidade \in selecionadas)
              ELSE df
        f2 == SelectSeq(f1, LAMBDA r : r.total_matriculas >= min_matriculas)
    IN SelectSeq(f2, LAMBDA r : r.total_criterios >= min_criterios)

\* The options of the category selectbox and mapa_categorias.
Categorias ==
    << "Formula Personalizada", "Criterios de Grupo", "Grupo com Recuperacao Paralela",
       "Grupo com Recuperacao Semestral", "Formula com Recuperacao Paralela",
       "Formula com Recuperacao Semestral" >>

mapa_categorias ==
    ("Formula Personalizada" :> "formula_personalizada")
    @@ ("Criterios de Grupo" :> "criterio_grupo")
    @@ ("Grupo com Recuperacao Paralela" :> "grupo_rec_paralela")
    @@ ("Grupo com Recuperacao Semestral" :> "grupo_rec_semestral")
    @@ ("Formula com Recuperacao Paralela" :> "formula_rec_paralela")
    @@ ("Formula com Recuperacao Semestral" :> "formula_rec_semestral")

\* opcoes_ordenacao of the full table.
opcoes_ordenacao ==
    ("Total de Criterios" :> "Total de Criterios")
    @@ ("Total de Matriculas" :> "Total de Matriculas")
    @@ ("Formulas Personalizadas" :> "Formula Personalizada")
    @@ ("Criterios de Grupo" :> "Criterios de Grupo")

\* The totals and percentages of "Resumo por Categoria" and of the enrolment summary.
Resumir(df) ==
    LET total_criterios == SumCol(df, "total_criterios")
        total_formula == SumCol(df, "formula_personalizada")
        total_grupo == SumCol(df, "criterio_grupo")
        total_grupo_paralela == SumCol(df, "grupo_rec_paralela")
        total_grupo_semestral == SumCol(df, "grupo_rec_semestral")
        total_formula_paralela == SumCol(df, "formula_rec_paralela")
        total_formula_semestral == SumCol(df, "formula_rec_semestral")
    IN [feito |-> TRUE,
        total_criterios |-> total_criterios,
        total_formula |-> total_formula,
        perc_formula |-> PercentualResumo(total_formula, total_criterios),
        total_grupo |-> total_grupo,
        perc_grupo |-> PercentualResumo(total_grupo, total_criterios),
        total_grupo_paralela |-> total_grupo_paralela,
        perc_grupo_paralela |-> PercentualResumo(total_grupo_paralela, total_grupo),
        total_grupo_semestral |-> total_grupo_semestral,
        perc_grupo_semestral |-> PercentualResumo(total_grupo_semestral, total_grupo),
        total_formula_paralela |-> total_formula_paralela,
        perc_formula_paralela |-> PercentualResumo(total_formula_paralela, total_formula),
        total_formula_semestral |-> total_formula_semestral,
        perc_formula_semestral |-> PercentualResumo(total_formula_semestral, total_formula),
        total_matriculas |-> SumCol(df, "total_matriculas"),
        total_turmas |-> SumCol(df, "total_turmas")]

ResumoVazio ==
    [feito |-> FALSE,
     total_criterios |-> 0, total_formula |-> 0, perc_formula |-> Num(0),
     total_grupo |-> 0, perc_grupo |-> Num(0),
     total_grupo_paralela |-> 0, perc_grupo_paralela |-> Num(0),
     total_grupo_semestral |-> 0, perc_grupo_semestral |-> Num(0),
     total_formula_paralela |-> 0, perc_formula_paralela |-> Num(0),
     total_formula_semestral |-> 0, perc_formula_semestral |-> Num(0),
     total_matriculas |-> 0, total_turmas |-> 0]

\* dados_pizza, without the categories of quantity zero or less.
Pizza(r) ==
    SelectSeq(
        << [Categoria |-> "Formula Personalizada com Rec. Paralela",
            Quantidade |-> r.total_formula_paralela],
           [Categoria |-> "Formula Personalizada com Rec. Semestral",
            Quantidade |-> r.total_formula_semestral],
           [Categoria |-> "Formula Personalizada (outros)",
            Quantidade |-> r.total_formula - r.total_formula_paralela
                           - r.total_formula_semestral],
           [Categoria |-> "Criterio de Grupo com Rec. Paralela",
            Quantidade |-> r.total_grupo_paralela],
           [Categoria |-> "Criterio de Grupo com Rec. Semestral",
            Quantidade |-> r.total_grupo_semestral],
           [Categoria |-> "Criterio de Grupo (outros)",
            Quantidade |-> r.total_grupo - r.total_grupo_paralela - r.total_grupo_semestral],
           [Categoria |-> "Outros Criterios",
            Quantidade |-> r.total_criterios - r.total_formula - r.total_grupo] >>,
        LAMBDA l : l.Quantidade > 0)

\* head(n) of the table as it is, without the sort.
TopNSemOrdenar(df, col, n) == HeadN(df, n)

\* df.sort_values(col, ascending=False).head(n)
TopN(df, col, n) == HeadN(SortValues(df, col), n)

\* df_display_cat: the rows with the category, sorted, with their 'percentual'.
DisplayCat(df, col) ==
    LET df_categoria == SortValues(SelectSeq(df, LAMBDA r : r[col] > 0), col)
    IN [i \in 1..Len(df_categoria) |->
          [nome_entidade |-> df_categoria[i].nome_entidade,
           total_criterios |-> df_categoria[i].total_criterios,
           categoria |-> df_categoria[i][col],
           total_matriculas |-> df_categoria[i].total_matriculas,
           total_turmas |-> df_categoria[i].total_turmas,
           percentual |-> Percentual(df_categoria[i][col], df_categoria[i].total_criterios)]]

\* df_display: the filtered table renamed, without entidade_id, sorted by col.
Display(df, col) ==
    SortValues(
        [i \in 1..Len(df) |->
            ("Entidade" :> df[i].nome_entidade)
            @@ ("Total de Criterios" :> df[i].total_criterios)
            @@ ("Formula Personalizada" :> df[i].formula_personalizada)
            @@ ("Criterios de Grupo" :> df[i].criterio_grupo)
            @@ ("Grupo com Rec. Paralela" :> df[i].grupo_rec_paralela)
            @@ ("Grupo com Rec. Semestral" :> df[i].grupo_rec_semestral)
            @@ ("Formula com Rec. Paralela" :> df[i].formula_rec_paralela)
            @@ ("Formula com Rec. Semestral" :> df[i].formula_rec_semestral)
            @@ ("Total de Matriculas" :> df[i].total_matriculas)
            @@ ("Total de Turmas" :> df[i].total_turmas)
            @@ ("percentual_formula" :> df[i].percentual_formula)
            @@ ("percentual_grupo" :> df[i].percentual_grupo)],
        col)

\* ---------------------------------------------------------------- actions
WidgetsIniciais ==
    [entidades_selecionadas |-> {}, min_matriculas |-> 0, min_criterios |-> 0,
     num_entidades |-> 0, categoria_selecionada |-> "", coluna_ordenacao |-> ""]

Tab3Nada == [mostra |-> "nada", entidade_analise |-> "", df_entidade |-> <<>>]

PercFora == [passo |-> "fora", num |-> 0, den |-> 0, res |-> Num(0)]

\* The state of the script before its first statement, on database d.
Inicio(d) ==
    /\ db = d
    /\ df_categorias = Unset
    /\ df_matriculas = Unset
    /\ df_completo = Unset
    /\ widgets = WidgetsIniciais
    /\ df_filtrado = Unset
    /\ resumo = ResumoVazio
    /\ df_pizza = Unset
    /\ df_top_matriculas = Unset
    /\ df_top_categoria = Unset
    /\ df_display_cat = Unset
    /\ tab3 = Tab3Nada
    /\ df_display = Unset
    /\ ui = <<>>
    /\ execucoes = [categorias |-> 0, matriculas |-> 0, escritas |-> 0]

Init ==
    /\ \E d \in BasesPequenas : Inicio(d)
    /\ pc = "categorias"
    /\ perc = PercFora

InitAmplo ==
    /\ \E d \in {BaseAmpla, BaseSemCriterios} : Inicio(d)
    /\ pc = "categorias"
    /\ perc = PercFora

\* df_categorias = carregar_dados_categorias()
CarregarCategorias ==
    /\ pc = "categorias"
    /\ \E resultado \in Resultados :
         LET r == ExecutarConsulta(Q_CATEGORIAS, resultado, db)
         IN /\ df_categorias' = r.ret
            /\ ui' = ui \o r.out
            /\ execucoes' = [execucoes EXCEPT !.categorias = @ + r.tentativas]
            /\ pc' = IF r.raised THEN "raised" ELSE "matriculas"
    /\ UNCHANGED <<db, df_matriculas, df_completo, widgets, df_filtrado, resumo, df_pizza,
                   df_top_matriculas, df_top_categoria, df_display_cat, tab3, df_display,
                   perc>>

\* Another client of the database deletes an entity between the two queries,
\* which run as separate statements outside any transaction.
EscritaConcorrente ==
    /\ pc = "matriculas"
    /\ execucoes.escritas = 0
    /\ \E e \in db.entidades : db' = ApagarEntidade(db, e)
    /\ execucoes' = [execucoes EXCEPT !.escritas = @ + 1]
    /\ UNCHANGED <<pc, df_categorias, df_matriculas, df_completo, widgets, df_filtrado,
                   resumo, df_pizza, df_top_matriculas, df_top_categoria, df_display_cat,
                   tab3, df_display, ui, perc>>

\* df_matriculas = carregar_dados_matriculas()
CarregarMatriculas ==
    /\ pc = "matriculas"
    /\ \E resultado \in Resultados :
         LET r == ExecutarConsulta(Q_MATRICULAS, resultado, db)
         IN /\ df_matriculas' = r.ret
            /\ ui' = ui \o r.out
            /\ execucoes' = [execucoes EXCEPT !.matriculas = @ + r.tentativas]
            /\ pc' = IF r.raised THEN "raised" ELSE "merge"
    /\ UNCHANGED <<db, df_categorias, df_completo, widgets, df_filtrado, resumo, df_pizza,
                   df_top_matriculas, df_top_categoria, df_display_cat, tab3, df_display,
                   perc>>

\* The test with "or" in place of "and".
DadosDisponiveisOu(categorias, matriculas) == categorias # None \/ matriculas # None

\* if df_categorias is not None and df_matriculas is not None
DadosDisponiveis(categorias, matriculas) == categorias # None /\ matriculas # None

\* The branch of the loaded data: merge, fill, derive.
MesclarDados ==
    /\ pc = "merge"
    /\ DadosDisponiveis(df_categorias, df_matriculas)
    /\ df_completo' = DataFrame(Mesclar(df_categorias.rows, df_matriculas.rows))
    /\ ui' = Append(ui, StSuccess(DADOS_CARREGADOS))
    /\ pc' = "filtros"
    /\ UNCHANGED <<db, df_categorias, df_matriculas, widgets, df_filtrado, resumo, df_pizza,
                   df_top_matriculas, df_top_categoria, df_display_cat, tab3, df_display,
                   execucoes, perc>>

\* else: st.error("Nao foi possivel carregar os dados ...")
DadosIndisponiveis ==
    /\ pc = "merge"
    /\ ~DadosDisponiveis(df_categorias, df_matriculas)
    /\ ui' = Append(ui, StError(ERRO_DADOS, ""))
    /\ pc' = "done"
    /\ UNCHANGED <<db, df_categorias, df_matriculas, df_completo, widgets, df_filtrado,
                   resumo, df_pizza, df_top_matriculas, df_top_categoria, df_display_cat,
                   tab3, df_display, execucoes, perc>>

\* The sidebar sliders take int(df_completo[col].max()) as their maximum: the
\* maximum of an empty column is NaN and int(NaN) raises ValueError.
SidebarRaises ==
    /\ pc = "filtros"
    /\ IntRaises(MaxOuNaN(df_completo.rows, "total_matriculas"))
    /\ pc' = "raised"
    /\ UNCHANGED <<db, df_categorias, df_matriculas, df_completo, widgets, df_filtrado,
                   resumo, df_pizza, df_top_matriculas, df_top_categoria, df_display_cat,
                   tab3, df_display, ui, execucoes, perc>>

\* The sidebar widgets take their values and the three filters are applied.
AplicarFiltros ==
    /\ pc = "filtros"
    /\ ~IntRaises(MaxOuNaN(df_completo.rows, "total_matriculas"))
    /\ ~IntRaises(MaxOuNaN(df_completo.rows, "total_criterios"))
    /\ LET todas_entidades == {r.nome_entidade : r \in Range(df_completo.rows)}
       IN \E selecionadas \in {S \in SUBSET todas_entidades : Cardinality(S) <= MaxSelecionadas},
             min_matriculas \in MinMatriculasSlider..MaxCol(df_completo.rows, "total_matriculas"),
             min_criterios \in MinCriteriosSlider..MaxCol(df_completo.rows, "total_criterios"),
             num_entidades \in MinNumEntidades..MaxNumEntidades :
            /\ widgets' = [widgets EXCEPT !.entidades_selecionadas = selecionadas,
                                          !.min_matriculas = min_matriculas,
                                          !.min_criterios = min_criterios,
                                          !.num_entidades = num_entidades]
            /\ df_filtrado' = DataFrame(Filtrar(df_completo.rows, selecionadas,
                                                min_matriculas, min_criterios))
    /\ pc' = "resumo"
    /\ UNCHANGED <<db, df_categorias, df_matriculas, df_completo, resumo, df_pizza,
                   df_top_matriculas, df_top_categoria, df_display_cat, tab3, df_display,
                   ui, execucoes, perc>>

\* "Resumo por Categoria" and the enrolment summary.
MostrarResumo ==
    /\ pc = "resumo"
    /\ resumo' = Resumir(df_filtrado.rows)
    /\ pc' = "tab1"
    /\ UNCHANGED <<db, df_categorias, df_matriculas, df_completo, widgets, df_filtrado,
                   df_pizza, df_top_matriculas, df_top_categoria, df_display_cat, tab3,
                   df_display, ui, execucoes, perc>>

\* Tab "Visao Geral": the pie chart and the top entities by enrolments.
Tab1 ==
    /\ pc = "tab1"
    /\ df_pizza' = DataFrame(Pizza(resumo))
    /\ df_top_matriculas' =
         DataFrame(TopN(df_filtrado.rows, "total_matriculas", widgets.num_entidades))
    /\ pc' = "tab2"
    /\ UNCHANGED <<db, df_categorias, df_matriculas, df_completo, widgets, df_filtrado,
                   resumo, df_top_categoria, df_display_cat, tab3, df_display, ui,
                   execucoes, perc>>

\* Tab "Analise por Categoria": the top entities of the selected category and
\* the table of the entities that have it.
Tab2 ==
    /\ pc = "tab2"
    /\ \E categoria_selecionada \in Range(Categorias) :
         LET coluna_categoria == mapa_categorias[categoria_selecionada]
         IN /\ widgets' = [widgets EXCEPT !.categoria_selecionada = categoria_selecionada]
            /\ df_top_categoria' =
                 DataFrame(TopN(df_filtrado.rows, coluna_categoria, widgets.num_entidades))
            /\ df_display_cat' = DataFrame(DisplayCat(df_filtrado.rows, coluna_categoria))
    /\ pc' = "tab3"
    /\ UNCHANGED <<db, df_categorias, df_matriculas, df_completo, df_filtrado, resumo,
                   df_pizza, df_top_matriculas, tab3, df_display, ui, execucoes, perc>>

\* Tab "Analise por Entidade", if len(df_filtrado) > 1: the selected entity's row.
Tab3Detalhe ==
    /\ pc = "tab3"
    /\ Len(df_filtrado.rows) > 1
    /\ \E i \in {1, Len(df_filtrado.rows)} :
         LET entidade_analise == df_filtrado.rows[i].nome_entidade
             df_entidade == SelectSeq(df_filtrado.rows,
                                      LAMBDA r : r.nome_entidade = entidade_analise)[1]
         IN tab3' = [mostra |-> "detalhe", entidade_analise |-> entidade_analise,
                     df_entidade |-> <<df_entidade>>]
    /\ pc' = "tabela"
    /\ UNCHANGED <<db, df_categorias, df_matriculas, df_completo, widgets, df_filtrado,
                   resumo, df_pizza, df_top_matriculas, df_top_categoria, df_display_cat,
                   df_display, ui, execucoes, perc>>

\* else: st.info("Selecione pelo menos uma entidade ...")
Tab3Info ==
    /\ pc = "tab3"
    /\ ~(Len(df_filtrado.rows) > 1)
    /\ tab3' = [mostra |-> "info", entidade_analise |-> "", df_entidade |-> <<>>]
    /\ pc' = "tabela"
    /\ UNCHANGED <<db, df_categorias, df_matriculas, df_completo, widgets, df_filtrado,
                   resumo, df_pizza, df_top_matriculas, df_top_categoria, df_display_cat,
                   df_display, ui, execucoes, perc>>

\* "Tabela Completa": the filtered table renamed and sorted by the chosen column.
TabelaCompleta ==
    /\ pc = "tabela"
    /\ \E coluna_ordenacao \in DOMAIN opcoes_ordenacao :
         /\ widgets' = [widgets EXCEPT !.coluna_ordenacao = coluna_ordenacao]
         /\ df_display' = DataFrame(Display(df_filtrado.rows, opcoes_ordenacao[coluna_ordenacao]))
    /\ pc' = "done"
    /\ UNCHANGED <<db, df_categorias, df_matriculas, df_completo, df_filtrado, resumo,
                   df_pizza, df_top_matriculas, df_top_categoria, df_display_cat, tab3, ui,
                   execucoes, perc>>

Next ==
    \/ CarregarCategorias
    \/ EscritaConcorrente
    \/ CarregarMatriculas
    \/ MesclarDados
    \/ DadosIndisponiveis
    \/ SidebarRaises
    \/ AplicarFiltros
    \/ MostrarResumo
    \/ Tab1
    \/ Tab2
    \/ Tab3Detalhe
    \/ Tab3Info
    \/ TabelaCompleta

Spec == Init /\ [][Next]_vars

SpecAmplo == InitAmplo /\ [][Next]_vars

\* ------------------------------------- the percentage expressions on their own
\* Operands of a percentage expression: any two counts.
InitPerc ==
    /\ Inicio([entidades |-> {}, criterios |-> <<>>, turmas |-> <<>>, matriculas |-> <<>>])
    /\ pc = "percentual"
    /\ \E num \in 0..MaxOperando, den \in 0..MaxOperando :
         perc = [passo |-> "entrada", num |-> num, den |-> den, res |-> Num(0)]

\* The per-row expression of lines 124, 125 and 346.
PercentualLinha ==
    /\ pc = "percentual"
    /\ perc.passo = "entrada"
    /\ perc' = [perc EXCEPT !.passo = "linha", !.res = Percentual(perc.num, perc.den)]
    /\ UNCHANGED <<db, pc, df_categorias, df_matriculas, df_completo, widgets, df_filtrado,
                   resumo, df_pizza, df_top_matriculas, df_top_categoria, df_display_cat,
                   tab3, df_display, ui, execucoes>>

\* The guarded expression of the six summary percentages.
PercentualDoResumo ==
    /\ pc = "percentual"
    /\ perc.passo = "entrada"
    /\ perc' = [perc EXCEPT !.passo = "resumo", !.res = PercentualResumo(perc.num, perc.den)]
    /\ UNCHANGED <<db, pc, df_categorias, df_matriculas, df_completo, widgets, df_filtrado,
                   resumo, df_pizza, df_top_matriculas, df_top_categoria, df_display_cat,
                   tab3, df_display, ui, execucoes>>

NextPerc == PercentualLinha \/ PercentualDoResumo

SpecPerc == InitPerc /\ [][NextPerc]_vars

\* ================================================================ claims
Abs(x) == IF x >= 0 THEN x ELSE 0 - x

Ids(df) == {df[i].entidade_id : i \in DOMAIN df}

\* The views of the presentation, none of which has been built.
NadaApresentado ==
    /\ df_filtrado = Unset
    /\ resumo = ResumoVazio
    /\ df_pizza = Unset
    /\ df_top_matriculas = Unset
    /\ df_top_categoria = Unset
    /\ df_display_cat = Unset
    /\ tab3 = Tab3Nada
    /\ df_display = Unset

\* C1: if either aggregation result is None the pass performs no merge, no
\* filter and no presentation step and ends showing the one "data could not
\* be loaded" error; the merge is executed only when both results are present.
C1_MissingData ==
    /\ df_completo.st = "df" => (df_categorias.st = "df" /\ df_matriculas.st = "df")
    /\ (df_categorias = None \/ df_matriculas = None) =>
          /\ df_completo = Unset
          /\ NadaApresentado
          /\ pc \in {"matriculas", "merge", "done"}
          /\ pc = "done" =>
                /\ ui[Len(ui)] = StError(ERRO_DADOS, "")
                /\ Cardinality({i \in DOMAIN ui : ui[i].texto = ERRO_DADOS}) = 1

C1_Witness ==
    /\ pc = "done"
    /\ df_categorias.st = "df" /\ Len(df_categorias.rows) > 0
    /\ df_matriculas = None

C3_ZeroFill ==
    df_completo.st = "df" =>
        LET c == df_categorias.rows
            m == df_matriculas.rows
            r == df_completo.rows
        IN /\ Len(r) = Len(c)
           /\ \A i \in DOMAIN c :
                 Cardinality({j \in DOMAIN r : r[j].entidade_id = c[i].entidade_id}) = 1
           /\ \A j \in DOMAIN r :
                 LET ms == {k \in DOMAIN m : m[k].entidade_id = r[j].entidade_id}
                 IN IF ms = {}
                    THEN r[j].total_matriculas = 0 /\ r[j].total_turmas = 0
                    ELSE \A k \in ms :
                           /\ r[j].total_matriculas = m[k].total_matriculas
                           /\ r[j].total_turmas = m[k].total_turmas

C3_Witness ==
    /\ df_completo.st = "df"
    /\ \E j \in DOMAIN df_completo.rows :
         df_completo.rows[j].entidade_id \notin Ids(df_matriculas.rows)
    /\ \E j \in DOMAIN df_completo.rows :
         /\ df_completo.rows[j].entidade_id \in Ids(df_matriculas.rows)
         /\ df_completo.rows[j].total_matriculas > 0

\* C4: in every row of the criteria aggregate each of the six sub-counts is at
\* most total_criterios, the two group-recovery counts are at most
\* criterio_grupo and the two formula-recovery counts at most
\* formula_personalizada.
C4_SubCounts ==
    df_categorias.st = "df" =>
        \A r \in Range(df_categorias.rows) :
            /\ r.formula_personalizada <= r.total_criterios
            /\ r.criterio_grupo <= r.total_criterios
            /\ r.grupo_rec_paralela <= r.total_criterios
            /\ r.grupo_rec_semestral <= r.total_criterios
            /\ r.formula_rec_paralela <= r.total_criterios
            /\ r.formula_rec_semestral <= r.total_criterios
            /\ r.grupo_rec_paralela <= r.criterio_grupo
            /\ r.grupo_rec_semestral <= r.criterio_grupo
            /\ r.formula_rec_paralela <= r.formula_personalizada
            /\ r.formula_rec_semestral <= r.formula_personalizada

C4_Witness ==
    /\ df_categorias.st = "df"
    /\ \E r \in Range(df_categorias.rows) :
         /\ r.total_criterios >= 2
         /\ r.formula_personalizada < r.total_criterios
         /\ r.formula_rec_paralela >= 1
         /\ r.criterio_grupo = 0

\* C5: the criteria aggregate has one row per entity with a criterion and none
\* for an entity without, so every row of the merged table and of every
\* filtered view has total_criterios > 0, whatever classes and enrolments the
\* excluded entity has.
C5_Having ==
    /\ (pc = "matriculas" /\ execucoes.escritas = 0 /\ df_categorias.st = "df") =>
          /\ Ids(df_categorias.rows) \subseteq db.entidades
          /\ \A e \in db.entidades :
                Cardinality({i \in DOMAIN df_categorias.rows :
                                df_categorias.rows[i].entidade_id = e})
                  = IF \E k \in DOMAIN db.criterios : db.criterios[k].entidade_id = e
                    THEN 1 ELSE 0
    /\ \A r \in Range(df_completo.rows) \cup Range(df_filtrado.rows)
                \cup Range(df_top_matriculas.rows) \cup Range(df_top_categoria.rows) :
          r.total_criterios > 0
    /\ \A r \in Range(df_display_cat.rows) : r.total_criterios > 0
    /\ \A r \in Range(df_display.rows) : r["Total de Criterios"] > 0

C5_Witness ==
    /\ pc = "done"
    /\ Len(df_display.rows) > 0
    /\ \E m \in Range(df_matriculas.rows) :
         /\ m.total_matriculas > 0
         /\ m.total_turmas > 0
         /\ m.entidade_id \notin Ids(df_completo.rows)

\* The row passes the three filters as the widgets are set.
Passa(r) ==
    /\ widgets.entidades_selecionadas = {} \/ r.nome_entidade \in widgets.entidades_selecionadas
    /\ r.total_matriculas >= widgets.min_matriculas
    /\ r.total_criterios >= widgets.min_criterios

\* C6: the filtered table is exactly the merged rows whose name is selected (or
\* no name is selected), whose enrolments reach the minimum and whose criteria
\* reach the minimum, both inclusive; filtering leaves the merged table unchanged.
C6_ExactFilter ==
    /\ [](df_filtrado.st = "df" =>
            /\ Range(df_filtrado.rows) \subseteq Range(df_completo.rows)
            /\ \A j \in DOMAIN df_completo.rows :
                  Cardinality({i \in DOMAIN df_filtrado.rows :
                                  df_filtrado.rows[i] = df_completo.rows[j]})
                    = IF Passa(df_completo.rows[j]) THEN 1 ELSE 0)
    /\ [][pc = "filtros" => df_completo' = df_completo]_vars

C6_Witness ==
    /\ pc = "resumo"
    /\ widgets.entidades_selecionadas = {}
    /\ widgets.min_matriculas > 0
    /\ widgets.min_criterios > 1
    /\ Len(df_filtrado.rows) > 0
    /\ \E r \in Range(df_completo.rows) :
         r.total_matriculas = widgets.min_matriculas /\ r \in Range(df_filtrado.rows)
    /\ \E r \in Range(df_completo.rows) :
         r.total_matriculas >= widgets.min_matriculas /\ r.total_criterios < widgets.min_criterios

\* C7: with the merged table and the name selection fixed, thresholds raised
\* above the ones in force give a filtered table that is a subset of, and no
\* longer than, the one in force.
C7_Monotone ==
    pc = "resumo" =>
        \A mm \in widgets.min_matriculas..MaxCol(df_completo.rows, "total_matriculas"),
           mc \in widgets.min_criterios..MaxCol(df_completo.rows, "total_criterios") :
            LET acima == Filtrar(df_completo.rows, widgets.entidades_selecionadas, mm, mc)
            IN /\ Range(acima) \subseteq Range(df_filtrado.rows)
               /\ Len(acima) <= Len(df_filtrado.rows)

C7_Witness ==
    /\ pc = "resumo"
    /\ widgets.min_criterios > 1
    /\ \E mc \in (widgets.min_criterios + 1)..MaxCol(df_completo.rows, "total_criterios") :
         LET acima == Filtrar(df_completo.rows, widgets.entidades_selecionadas,
                              widgets.min_matriculas, mc)
         IN 0 < Len(acima) /\ Len(acima) < Len(df_filtrado.rows)

\* The error of a failed query is shown, followed by the text of the query.
ErroMostrado(query) ==
    \E i \in 1..(Len(ui) - 1) :
        /\ ui[i].tipo = "error"
        /\ ui[i].texto = ERRO_CONSULTA
        /\ ui[i + 1] = StCode(query)

\* C8: a query that raises, for whatever reason, does not end the pass with an
\* exception: its error is shown with the query text, its result is None, and
\* neither query is executed more than once in a pass.
C8_QueryFailure ==
    /\ execucoes.categorias <= 1
    /\ execucoes.matriculas <= 1
    /\ df_categorias = None => ErroMostrado(Q_CATEGORIAS)
    /\ df_matriculas = None => ErroMostrado(Q_MATRICULAS)
    /\ (df_categorias = None \/ df_matriculas = None) => pc # "raised"
    /\ Len(SelectSeq(ui, LAMBDA o : o.texto = ERRO_CONSULTA))
         = (IF df_categorias = None THEN 1 ELSE 0) + (IF df_matriculas = None THEN 1 ELSE 0)

C8_Witness ==
    /\ pc = "done"
    /\ df_categorias = None
    /\ ui[1].detalhe = "erro_conexao"
    /\ df_matriculas.st = "df"
    /\ execucoes.matriculas = 1

\* The view holds min(N, len) distinct rows of the filtered table, none of
\* them smaller in col than a row left out.
TopNCorreto(view, col) ==
    /\ Len(view) = Min2(widgets.num_entidades, Len(df_filtrado.rows))
    /\ Cardinality(Range(view)) = Len(view)
    /\ Range(view) \subseteq Range(df_filtrado.rows)
    /\ \A r \in Range(view) : \A o \in Range(df_filtrado.rows) \ Range(view) :
          r[col] >= o[col]

\* C9: each top-N view holds the min(N, size) rows of the filtered table with
\* the largest values of its sort column, and building the views leaves the
\* filtered table as it was: the summary and the full table cover all of it.
C9_TopN ==
    /\ [](/\ df_top_matriculas.st = "df" =>
                TopNCorreto(df_top_matriculas.rows, "total_matriculas")
          /\ df_top_categoria.st = "df" =>
                TopNCorreto(df_top_categoria.rows,
                            mapa_categorias[widgets.categoria_selecionada])
          /\ resumo.feito =>
                resumo.total_matriculas = SumCol(df_filtrado.rows, "total_matriculas")
          /\ df_display.st = "df" =>
                /\ Len(df_display.rows) = Len(df_filtrado.rows)
                /\ {r["Entidade"] : r \in Range(df_display.rows)}
                     = {r.nome_entidade : r \in Range(df_filtrado.rows)})
    /\ [][(pc \in {"resumo", "tab1", "tab2", "tab3", "tabela"}) => (df_filtrado' = df_filtrado)]_vars

C9_Witness ==
    /\ pc = "done"
    /\ Len(df_filtrado.rows) > widgets.num_entidades
    /\ Len(df_top_matriculas.rows) = widgets.num_entidades
    /\ Len(df_top_categoria.rows) = widgets.num_entidades
    /\ Len(df_display.rows) = Len(df_filtrado.rows)
    /\ \E o \in Range(df_filtrado.rows) \ Range(df_top_categoria.rows) :
         o # df_filtrado.rows[Len(df_filtrado.rows)]

\* p is num / den * 100 to the nearest tenth, within 0 and 100.
PercentualCorreto(p, num, den) ==
    /\ p.kind = "num"
    /\ 0 <= p.tenths /\ p.tenths <= 1000
    /\ 2 * Abs(p.tenths * den - 1000 * num) <= den

\* C10: in every merged row percentual_formula is formula_personalizada /
\* total_criterios * 100 and percentual_grupo is criterio_grupo /
\* total_criterios * 100, rounded to one decimal and between 0 and 100; 3 of
\* 10 gives 30.0 and 4 of 10 gives 40.0.
C10_Percentual ==
    /\ df_completo.st = "df" =>
          \A r \in Range(df_completo.rows) :
              /\ PercentualCorreto(r.percentual_formula, r.formula_personalizada,
                                   r.total_criterios)
              /\ PercentualCorreto(r.percentual_grupo, r.criterio_grupo, r.total_criterios)
    /\ Percentual(3, 10) = Num(300)
    /\ Percentual(4, 10) = Num(400)

C10_Witness ==
    /\ df_completo.st = "df"
    /\ \E r \in Range(df_completo.rows) :
         /\ r.total_criterios = 3
         /\ r.percentual_formula = Num(667)
         /\ r.percentual_grupo = Num(333)

\* C11: once the per-entity tab has been rendered, the detail of a selected
\* entity is shown whenever the filtered table has at least one entity, and
\* the "select at least one entity" notice is shown only when it has none.
C11_DetalhePorEntidade ==
    (pc \in {"tabela", "done"} /\ df_filtrado.st = "df") =>
        /\ Len(df_filtrado.rows) >= 1 => tab3.mostra = "detalhe"
        /\ tab3.mostra = "info" => Len(df_filtrado.rows) = 0

\* C12: when both aggregation queries have succeeded the pass never raises,
\* whatever the merged table, the one with no rows included.
C12_SemExcecao ==
    (df_categorias.st = "df" /\ df_matriculas.st = "df") => pc # "raised"

====
